---- MODULE Spec2Model ----
(***************************************************************************)
(* Model of src/mcp-client/client.py: the MCP client shell.                *)
(*                                                                         *)
(* main() creates an MCPClient, connects to the tool server, runs the      *)
(* interactive chat_loop and always finishes with cleanup().  chat_loop    *)
(* reads a prompt, hands it to process_query and prints the answer or the  *)
(* error.  process_query fetches the catalog (list_tools), asks the chat   *)
(* backend for a decision (ollama.chat, stream=False), invokes a tool      *)
(* (call_tool) and streams summaries (ollama.chat, stream=True).           *)
(*                                                                         *)
(* Python values: None is the record None, a str is Str(s), a dict is a    *)
(* sequence of <<key, value>> pairs in insertion order.  Text typed at the *)
(* prompt and the script path are sequences of characters, so that         *)
(* lower() and endswith() are computed character by character.             *)
(***************************************************************************)
EXTENDS Integers, Sequences, FiniteSets, TLC

(***************************************************************************)
(* Bounds of the model.                                                    *)
(***************************************************************************)
MaxQueries == 2      \* queries handed to process_query in one run
MaxTools == 2        \* tool descriptors in one catalog
MaxToolCalls == 2    \* tool calls in one decision
MaxBlocks == 2       \* content blocks in one tool result

(***************************************************************************)
(* Python values.                                                          *)
(***************************************************************************)
None == [t |-> "None"]

Str(s) == [t |-> "str", v |-> s]

SeqsUpTo(S, n) == UNION {[1..k -> S] : k \in 0..n}

\* "".join(parts), client.py line 188
RECURSIVE Join(_)
Join(parts) ==
    IF parts = <<>> THEN "" ELSE Head(parts) \o Join(Tail(parts))

\* repr of a dict with str keys and str values, as the f-string of line 160
\* formats tool_args: {'state': 'WA'}
RECURSIVE ReprItems(_)
ReprItems(d) ==
    IF d = <<>> THEN ""
    ELSE "'" \o d[1][1] \o "': '" \o d[1][2] \o "'"
         \o (IF Len(d) > 1 THEN ", " ELSE "") \o ReprItems(Tail(d))

PyRepr(d) == "{" \o ReprItems(d) \o "}"

(***************************************************************************)
(* Inputs: what the user, the tool server and the chat backend can send.   *)
(***************************************************************************)
\* text typed at the prompt
Inputs ==
    { <<"q", "u", "i", "t">>, <<"Q", "U", "I", "T">>, <<"Q", "u", "i", "t">>,
      <<>>, <<"h", "i">> }

\* sys.argv: the program name, then at most one script path
CommandLines ==
    { <<"client.py">>,
      <<"client.py", <<"s", ".", "p", "y">> >>,
      <<"client.py", <<"s", ".", "j", "s">> >>,
      <<"client.py", <<"s", ".", "s", "h">> >> }

Schema1 == << <<"type", "object">> >>

\* mcp Tool descriptors; description is optional (None when absent)
Descriptors ==
    { [name |-> "get_forecast", description |-> Str("Get forecast"),
       inputSchema |-> [t |-> "dict", v |-> Schema1]],
      [name |-> "get_alerts", description |-> None,
       inputSchema |-> None] }

\* names are unique within one catalog
Catalogs ==
    { c \in SeqsUpTo(Descriptors, MaxTools) :
        \A i, j \in 1..Len(c) : c[i].name = c[j].name => i = j }

\* tool calls the chat backend may request; get_time is in no catalog
BackendToolCalls ==
    { [function |-> [name |-> "get_forecast",
                     arguments |-> << <<"state", "WA">> >>]],
      [function |-> [name |-> "get_time", arguments |-> <<>>]] }

\* response.message of the decision call: a text answer (or none) without
\* tool calls, or tool calls without text
Decisions ==
    { d \in { [content |-> c, tool_calls |-> tc] :
                c \in {None, Str("I don't understand")},
                tc \in SeqsUpTo(BackendToolCalls, MaxToolCalls) } :
        d.tool_calls # <<>> => d.content = None }

Blocks ==
    { [type |-> "text", text |-> "Sunny, 65F"],
      [type |-> "text", text |-> "72F, clear"],
      [type |-> "image", text |-> "<png>"] }

\* result.model_dump() of call_tool
ToolResults ==
    { [isError |-> e, content |-> c] :
        e \in BOOLEAN, c \in SeqsUpTo(Blocks, MaxBlocks) }

\* chunk sequences a streamed chat call may deliver
Streams ==
    { <<"Sunny.">>, <<"The", " forecast", " is sunny.">> }

(***************************************************************************)
(* State.                                                                  *)
(***************************************************************************)
VARIABLES
    pc,              \* position of the single thread of control
    session,         \* self.session: "none" or "open" or "closed"
    exit_stack,      \* contexts entered on self.exit_stack, in order
    opened,          \* number of times a ClientSession was entered
    closed,          \* number of times a ClientSession was exited
    cleanups,        \* number of times cleanup() ran
    exit_reason,     \* how main() ended
    query,           \* chat_loop: query
    nQueries,        \* queries handed to process_query so far
    console,         \* the last panel or line printed by chat_loop
    exc,             \* the place that raised in this iteration, or "none"
    messages,        \* process_query: messages
    available_tools, \* process_query: available_tools
    tool_calls,      \* process_query: tool_calls
    tool_results,    \* process_query: tool_results
    final_text,      \* process_query: final_text
    tool_name,       \* process_query: tool_name
    tool_args,       \* process_query: tool_args
    data,            \* process_query: data
    ti,              \* process_query: index of `tool_call` in tool_calls
    ci,              \* process_query: index of `content` in data["content"]
    response,        \* value returned by process_query on its way to chat_loop
    pending,         \* chunks the running stream has not delivered yet
    log              \* what the collaborators saw in this loop iteration

client == <<session, exit_stack, opened, closed, cleanups, exit_reason>>

loop == <<query, nQueries, console, exc>>

frame == <<messages, available_tools, tool_calls, tool_results, final_text,
           tool_name, tool_args, data, ti, ci>>

vars == <<pc, client, loop, frame, response, pending, log>>

NoData == [isError |-> FALSE, content |-> <<>>]

NoDecision == [content |-> None, tool_calls |-> <<>>]

\* per iteration of chat_loop: the calls made on the collaborators, in order
EmptyLog ==
    [ trace |-> <<>>,         \* names of the external calls
      catalog |-> <<>>,       \* response.tools of list_tools
      decide_args |-> <<>>,   \* <<messages, tools>> of each decision call
      decision |-> NoDecision,\* response.message of the decision call
      decided |-> FALSE,      \* the decision call has returned
      invocations |-> <<>>,   \* call_tool calls: name, args, history then
      results |-> <<>>,       \* results of the call_tool calls
      summaries |-> <<>>,     \* messages passed to each streamed chat call
      streams |-> <<>>,       \* what each streamed chat call is to deliver
      streamed |-> <<>> ]     \* chunks delivered by the streams, in order

NoConsole == [kind |-> "none", text |-> None]

Init ==
    /\ pc = "main"
    /\ session = "none"
    /\ exit_stack = <<>>
    /\ opened = 0
    /\ closed = 0
    /\ cleanups = 0
    /\ exit_reason = "running"
    /\ query = <<>>
    /\ nQueries = 0
    /\ console = NoConsole
    /\ exc = "none"
    /\ messages = <<>>
    /\ available_tools = <<>>
    /\ tool_calls = <<>>
    /\ tool_results = <<>>
    /\ final_text = <<>>
    /\ tool_name = ""
    /\ tool_args = <<>>
    /\ data = NoData
    /\ ti = 0
    /\ ci = 0
    /\ response = None
    /\ pending = <<>>
    /\ log = EmptyLog

(***************************************************************************)
(* Pure helpers of the program.                                            *)
(***************************************************************************)
\* str.lower() on one character
LowerChar(c) ==
    CASE c = "Q" -> "q"
      [] c = "U" -> "u"
      [] c = "I" -> "i"
      [] c = "T" -> "t"
      [] OTHER -> c

\* variant: the text is compared as typed
lower_as_typed(s) == s

\* query.lower(), line 237
lower(s) == [i \in 1..Len(s) |-> LowerChar(s[i])]

\* str.endswith(suffix), lines 50-51
endswith(s, suffix) ==
    /\ Len(s) >= Len(suffix)
    /\ SubSeq(s, Len(s) - Len(suffix) + 1, Len(s)) = suffix

\* lines 73-82
convert_to_openai_format(tools) ==
    [i \in 1..Len(tools) |->
        [type |-> "function",
         function |-> [name |-> tools[i].name,
                       description |-> tools[i].description,
                       parameters |-> tools[i].inputSchema]]]

\* variant: a decision without tool calls yields the fallback call of
\* lines 145-147
BuildToolCalls_fallback(msg_tool_calls, q) ==
    IF msg_tool_calls = <<>>
    THEN <<[id |-> <<q, 1>>, type |-> "function",
            function |-> [name |-> "no tool found", arguments |-> <<>>]]>>
    ELSE [i \in 1..Len(msg_tool_calls) |->
            [id |-> <<q, i>>,
             type |-> "function",
             function |-> [name |-> msg_tool_calls[i].function.name,
                           arguments |-> msg_tool_calls[i].function.arguments]]]

\* lines 124-134: the dicts built from message.tool_calls; uuid4 is modelled
\* as a token that is fresh for each (query, position)
BuildToolCalls(msg_tool_calls, q) ==
    [i \in 1..Len(msg_tool_calls) |->
        [id |-> <<q, i>>,
         type |-> "function",
         function |-> [name |-> msg_tool_calls[i].function.name,
                       arguments |-> msg_tool_calls[i].function.arguments]]]

\* variant: the type of the block is not tested
NextText_any(content, from) ==
    IF from > Len(content) THEN 0 ELSE from

\* lines 169-170: the first index >= from of a text block, 0 when none
RECURSIVE NextText(_, _)
NextText(content, from) ==
    IF from > Len(content) THEN 0
    ELSE IF content[from].type = "text" THEN from
    ELSE NextText(content, from + 1)

\* variant: the arguments are left out of the message
FailureText_noargs(name, args) ==
    "function call for " \o name \o " failed"

\* line 160
FailureText(name, args) ==
    "function call for " \o name \o " failed with arguments " \o PyRepr(args)

\* the frame of process_query is gone once it returns or raises
FrameGone ==
    /\ messages' = <<>>
    /\ available_tools' = <<>>
    /\ tool_calls' = <<>>
    /\ tool_results' = <<>>
    /\ final_text' = <<>>
    /\ tool_name' = ""
    /\ tool_args' = <<>>
    /\ data' = NoData
    /\ ti' = 0
    /\ ci' = 0

(***************************************************************************)
(* main and connect_to_server.                                             *)
(***************************************************************************)
\* lines 256-258: no script path on the command line
main_usage(argv) ==
    /\ pc = "main"
    /\ Len(argv) < 2
    /\ pc' = "done"
    /\ exit_reason' = "usage"
    /\ UNCHANGED <<session, exit_stack, opened, closed, cleanups,
                   loop, frame, response, pending, log>>

ConnectOutcomes ==
    {"stdio_error", "session_error", "initialize_error", "list_tools_error",
     "ok"}

\* variant: a failure of connect_to_server is swallowed and chat_loop runs
connect_to_server_swallowed(argv, outcome) ==
    /\ pc = "main"
    /\ Len(argv) >= 2
    /\ LET server_script_path == argv[2]
           is_python == endswith(server_script_path, <<".", "p", "y">>)
           is_js == endswith(server_script_path, <<".", "j", "s">>)
       IN  IF ~(is_python \/ is_js)
           THEN /\ pc' = "prompt"
                /\ exit_reason' = "connect_error"
                /\ UNCHANGED <<session, exit_stack, opened>>
           ELSE /\ exit_stack' =
                     CASE outcome = "stdio_error" -> <<>>
                       [] outcome = "session_error" -> <<"stdio_client">>
                       [] OTHER -> <<"stdio_client", "ClientSession">>
                /\ session' =
                     IF outcome \in {"stdio_error", "session_error"}
                     THEN "none" ELSE "open"
                /\ opened' =
                     IF outcome \in {"stdio_error", "session_error"}
                     THEN opened ELSE opened + 1
                /\ pc' = "prompt"
                /\ exit_reason' =
                     IF outcome = "ok" THEN exit_reason ELSE "connect_error"
    /\ UNCHANGED <<closed, cleanups, loop, frame, response, pending,
                   log>>

\* lines 260-262 with connect_to_server, lines 44-71; an exception leaves the
\* try block of main for its finally clause
connect_to_server(argv, outcome) ==
    /\ pc = "main"
    /\ Len(argv) >= 2
    /\ LET server_script_path == argv[2]
           is_python == endswith(server_script_path, <<".", "p", "y">>)
           is_js == endswith(server_script_path, <<".", "j", "s">>)
       IN  IF ~(is_python \/ is_js)
           THEN /\ pc' = "cleanup"
                /\ exit_reason' = "connect_error"
                /\ UNCHANGED <<session, exit_stack, opened>>
           ELSE /\ exit_stack' =
                     CASE outcome = "stdio_error" -> <<>>
                       [] outcome = "session_error" -> <<"stdio_client">>
                       [] OTHER -> <<"stdio_client", "ClientSession">>
                /\ session' =
                     IF outcome \in {"stdio_error", "session_error"}
                     THEN "none" ELSE "open"
                /\ opened' =
                     IF outcome \in {"stdio_error", "session_error"}
                     THEN opened ELSE opened + 1
                /\ pc' = IF outcome = "ok" THEN "prompt" ELSE "cleanup"
                /\ exit_reason' =
                     IF outcome = "ok" THEN exit_reason ELSE "connect_error"
    /\ UNCHANGED <<closed, cleanups, loop, frame, response, pending,
                   log>>

\* lines 251-253 run from the finally clause of main, lines 264-265:
\* aclose() exits every context that was entered
cleanup ==
    /\ pc = "cleanup"
    /\ cleanups' = cleanups + 1
    /\ closed' = closed + Cardinality({i \in 1..Len(exit_stack) :
                                          exit_stack[i] = "ClientSession"})
    /\ session' = IF session = "open" THEN "closed" ELSE session
    /\ exit_stack' = <<>>
    /\ pc' = "done"
    /\ UNCHANGED <<opened, exit_reason, loop, frame, response, pending,
                   log>>

(***************************************************************************)
(* chat_loop.                                                              *)
(***************************************************************************)
\* variant: the handler prints the error and lets the loop end
except_Exception_breaks(site, text) ==
    /\ pc' = "cleanup"
    /\ console' = [kind |-> "error", text |-> Str("\nError: " \o text)]
    /\ exc' = site
    /\ exit_reason' = "error"

\* lines 248-249: an Exception raised inside the try block is printed and
\* the while loop goes on to the next prompt
except_Exception(site, text) ==
    /\ pc' = "prompt"
    /\ console' = [kind |-> "error", text |-> Str("\nError: " \o text)]
    /\ exc' = site
    /\ UNCHANGED exit_reason

\* lines 235-239: the prompt returns a text whose lower() is 'quit'
chat_loop_quit(text) ==
    /\ pc = "prompt"
    /\ lower(text) = <<"q", "u", "i", "t">>
    /\ query' = text
    /\ console' = [kind |-> "exit", text |-> Str("Exiting chate mode.")]
    /\ exc' = "none"
    /\ log' = EmptyLog
    /\ pc' = "cleanup"
    /\ exit_reason' = "quit"
    /\ UNCHANGED <<session, exit_stack, opened, closed, cleanups,
                   nQueries, frame, response, pending>>

\* variant: the catalog is fetched for the first query only
chat_loop_query_cached(text) ==
    /\ pc = "prompt"
    /\ nQueries < MaxQueries
    /\ lower(text) # <<"q", "u", "i", "t">>
    /\ query' = text
    /\ LET query_text == IF text # <<>> THEN Str(text)
                                         ELSE Str("[No Message]")
       IN  console' = [kind |-> "you", text |-> query_text]
    /\ exc' = "none"
    /\ nQueries' = nQueries + 1
    /\ log' = EmptyLog
    /\ messages' = <<[role |-> "user", content |-> Str(text)]>>
    /\ pc' = IF nQueries = 0 THEN "list_tools" ELSE "decide"
    /\ UNCHANGED <<client, available_tools, tool_calls,
                   tool_results, final_text, tool_name, tool_args, data, ti,
                   ci, response, pending>>

\* lines 235-244 and 88-93: any other text is shown and handed to
\* process_query, which seeds messages and is about to await list_tools
chat_loop_query(text) ==
    /\ pc = "prompt"
    /\ nQueries < MaxQueries
    /\ lower(text) # <<"q", "u", "i", "t">>
    /\ query' = text
    /\ LET query_text == IF text # <<>> THEN Str(text)
                                         ELSE Str("[No Message]")
       IN  console' = [kind |-> "you", text |-> query_text]
    /\ exc' = "none"
    /\ nQueries' = nQueries + 1
    /\ log' = EmptyLog
    /\ messages' = <<[role |-> "user", content |-> Str(text)]>>
    /\ pc' = "list_tools"
    /\ UNCHANGED <<client, available_tools, tool_calls,
                   tool_results, final_text, tool_name, tool_args, data, ti,
                   ci, response, pending>>

\* variant: Prompt.ask is outside the try block, its Exception leaves
\* chat_loop
chat_loop_prompt_error_escapes ==
    /\ pc = "prompt"
    /\ log' = EmptyLog
    /\ exc' = "prompt"
    /\ pc' = "cleanup"
    /\ exit_reason' = "error"
    /\ UNCHANGED <<session, exit_stack, opened, closed, cleanups,
                   query, nQueries, console, frame, response, pending>>

\* line 235 raises an Exception (end of input): caught by lines 248-249
chat_loop_prompt_error ==
    /\ pc = "prompt"
    /\ log' = EmptyLog
    /\ except_Exception("prompt", "EOF when reading a line")
    /\ UNCHANGED <<session, exit_stack, opened, closed, cleanups,
                   query, nQueries, frame, response, pending>>

\* variant: main has no finally clause, the interrupt ends the run at once
chat_loop_interrupt_no_finally ==
    /\ pc = "prompt"
    /\ log' = EmptyLog
    /\ exc' = "none"
    /\ pc' = "done"
    /\ exit_reason' = "interrupt"
    /\ UNCHANGED <<session, exit_stack, opened, closed, cleanups,
                   query, nQueries, console, frame, response, pending>>

\* line 235 raises KeyboardInterrupt, which is not an Exception: it leaves
\* chat_loop and reaches the finally clause of main
chat_loop_interrupt ==
    /\ pc = "prompt"
    /\ log' = EmptyLog
    /\ exc' = "none"
    /\ pc' = "cleanup"
    /\ exit_reason' = "interrupt"
    /\ UNCHANGED <<session, exit_stack, opened, closed, cleanups,
                   query, nQueries, console, frame, response, pending>>

\* lines 244-246: the value process_query returned is rendered as Markdown
\* in the "Assistant Summary" panel.  Markdown(None) is outside str: the
\* library either raises (caught by line 248) or renders nothing useful.
chat_loop_show(raises) ==
    /\ pc = "returned"
    /\ IF response = None /\ raises
       THEN except_Exception("show", "markup is not a str")
       ELSE /\ pc' = "prompt"
            /\ console' = [kind |-> "answer", text |-> response]
            /\ UNCHANGED <<exc, exit_reason>>
    /\ response' = None
    /\ UNCHANGED <<session, exit_stack, opened, closed, cleanups,
                   query, nQueries, frame, pending, log>>

(***************************************************************************)
(* process_query.                                                          *)
(***************************************************************************)
Frame ==
    [messages |-> messages, available_tools |-> available_tools,
     tool_calls |-> tool_calls, tool_results |-> tool_results,
     final_text |-> final_text, tool_name |-> tool_name,
     tool_args |-> tool_args, data |-> data, ti |-> ti, ci |-> ci]

SetFrame(f) ==
    /\ messages' = f.messages
    /\ available_tools' = f.available_tools
    /\ tool_calls' = f.tool_calls
    /\ tool_results' = f.tool_results
    /\ final_text' = f.final_text
    /\ tool_name' = f.tool_name
    /\ tool_args' = f.tool_args
    /\ data' = f.data
    /\ ti' = f.ti
    /\ ci' = f.ci

\* process_query goes on to its next external call
Continue(f, next_pc) ==
    /\ pc' = next_pc
    /\ SetFrame(f)
    /\ response' = None
    /\ UNCHANGED <<console, exc, exit_reason>>

\* a return statement of process_query: the value travels to line 244
Returns(value) ==
    /\ pc' = "returned"
    /\ response' = value
    /\ FrameGone
    /\ UNCHANGED <<console, exc, exit_reason>>

\* an Exception raised inside process_query propagates to line 248
Raises(site, text) ==
    /\ except_Exception(site, text)
    /\ response' = None
    /\ FrameGone

\* lines 163-167
assistant_message(tool_call) ==
    [role |-> "assistant", content |-> None, tool_calls |-> <<tool_call>>]

\* variant: the tool result is appended as a user message
tool_message_as_user(content) ==
    [role |-> "user", content |-> Str(content.text)]

\* lines 172-175
tool_message(content) ==
    [role |-> "tool", content |-> Str(content.text)]

\* variant: a name that is not in the fetched catalog is replaced
name_of_checked(tool_call) ==
    IF /\ "function" \in DOMAIN tool_call
       /\ \E i \in 1..Len(available_tools) :
              available_tools[i].function.name = tool_call.function.name
    THEN tool_call.function.name ELSE "no tool found"

\* lines 138-147: tool_call is one of the dicts built at lines 127-134
name_of(tool_call) ==
    IF "function" \in DOMAIN tool_call
    THEN tool_call.function.name ELSE "no tool found"

args_of(tool_call) ==
    IF "function" \in DOMAIN tool_call
    THEN tool_call.function.arguments ELSE <<>>

\* variant: the assistant message is appended before call_tool is awaited
tool_loop_records_call(f, i) ==
    Continue([f EXCEPT !.ti = i,
                       !.tool_name = name_of(f.tool_calls[i]),
                       !.tool_args = args_of(f.tool_calls[i]),
                       !.messages =
                           Append(@, assistant_message(f.tool_calls[i]))],
             "call_tool")

\* lines 137-153: the body of `for tool_call in tool_calls` for the call at
\* index i, up to the await of call_tool
tool_loop(f, i) ==
    Continue([f EXCEPT !.ti = i,
                       !.tool_name = name_of(f.tool_calls[i]),
                       !.tool_args = args_of(f.tool_calls[i])],
             "call_tool")

\* variant: the history is cut back to the user message before a tool
\* message is added
content_loop_resets(f, from) ==
    LET k == NextText(f.data.content, from)
    IN  IF k # 0
        THEN Continue([f EXCEPT !.messages =
                                    <<f.messages[1],
                                      tool_message(f.data.content[k])>>,
                                !.ci = k],
                      "summarize")
        ELSE Returns(Str(Join(f.final_text)))

\* variant: every text block is appended first, then one streamed chat call
\* is made
content_loop_one_summary(f, from) ==
    LET texts == SelectSeq(f.data.content, LAMBDA b : b.type = "text")
    IN  IF from = 1 /\ texts # <<>>
        THEN Continue([f EXCEPT !.messages =
                                    @ \o [i \in 1..Len(texts) |->
                                             tool_message(texts[i])],
                                !.ci = Len(f.data.content)],
                      "summarize")
        ELSE Returns(Str(Join(f.final_text)))

\* variant: line 188 is reached only after the last tool call of the decision
content_loop_all_calls(f, from) ==
    LET k == NextText(f.data.content, from)
    IN  IF k # 0
        THEN Continue([f EXCEPT !.messages =
                                    Append(@, tool_message(f.data.content[k])),
                                !.ci = k],
                      "summarize")
        ELSE IF f.ti < Len(f.tool_calls)
        THEN tool_loop(f, f.ti + 1)
        ELSE Returns(Str(Join(f.final_text)))

\* lines 169-188: `for content in data.get("content", [])` from index `from`
\* on, up to the next streamed chat call or to the return of line 188
content_loop(f, from) ==
    LET k == NextText(f.data.content, from)
    IN  IF k # 0
        THEN Continue([f EXCEPT !.messages =
                                    Append(@, tool_message(f.data.content[k])),
                                !.ci = k],
                      "summarize")
        ELSE Returns(Str(Join(f.final_text)))

\* variant: the chunk is put in front
collect_in_front(chunks, chunk) == <<chunk>> \o chunks

\* line 185
collect(chunks, chunk) == Append(chunks, chunk)

\* line 95 returns the catalog; line 102 converts it
list_tools_ok(tools) ==
    /\ pc = "list_tools"
    /\ log' = [log EXCEPT !.trace = Append(@, "list_tools"),
                          !.catalog = tools]
    /\ Continue([Frame EXCEPT !.available_tools =
                                  convert_to_openai_format(tools)],
                "decide")
    /\ UNCHANGED <<session, exit_stack, opened, closed, cleanups,
                   query, nQueries, pending>>

\* line 95 raises
list_tools_error ==
    /\ pc = "list_tools"
    /\ log' = [log EXCEPT !.trace = Append(@, "list_tools")]
    /\ Raises("list_tools", "list_tools failed")
    /\ UNCHANGED <<session, exit_stack, opened, closed, cleanups,
                   query, nQueries, pending>>

\* lines 112-153: the decision call returns `message`; without tool calls
\* the function runs off its end and returns None
decide_ok(message) ==
    /\ pc = "decide"
    /\ log' = [log EXCEPT !.trace = Append(@, "decide"),
                          !.decide_args =
                              Append(@, [messages |-> messages,
                                         tools |-> available_tools]),
                          !.decision = message,
                          !.decided = TRUE]
    /\ LET built == BuildToolCalls(message.tool_calls, nQueries)
       IN  IF built # <<>>
           THEN tool_loop([Frame EXCEPT !.tool_calls = built], 1)
           ELSE Returns(None)
    /\ UNCHANGED <<session, exit_stack, opened, closed, cleanups,
                   query, nQueries, pending>>

\* line 112 raises
decide_error ==
    /\ pc = "decide"
    /\ log' = [log EXCEPT !.trace = Append(@, "decide"),
                          !.decide_args =
                              Append(@, [messages |-> messages,
                                         tools |-> available_tools])]
    /\ Raises("decide", "chat failed")
    /\ UNCHANGED <<session, exit_stack, opened, closed, cleanups,
                   query, nQueries, pending>>

\* lines 153-188: call_tool returns `result`
call_tool_ok(result) ==
    /\ pc = "call_tool"
    /\ log' = [log EXCEPT !.trace = Append(@, "call_tool"),
                          !.invocations =
                              Append(@, [name |-> tool_name,
                                         arguments |-> tool_args,
                                         messages |-> messages]),
                          !.results = Append(@, result)]
    /\ IF result.isError
       THEN Returns(Str(FailureText(tool_name, tool_args)))
       ELSE content_loop(
                [Frame EXCEPT !.tool_results =
                                  Append(@, [call |-> tool_name,
                                             result |-> result]),
                              !.data = result,
                              !.messages =
                                  Append(@, assistant_message(tool_calls[ti]))],
                1)
    /\ UNCHANGED <<session, exit_stack, opened, closed, cleanups,
                   query, nQueries, pending>>

\* line 153 raises
call_tool_error ==
    /\ pc = "call_tool"
    /\ log' = [log EXCEPT !.trace = Append(@, "call_tool"),
                          !.invocations =
                              Append(@, [name |-> tool_name,
                                         arguments |-> tool_args,
                                         messages |-> messages])]
    /\ Raises("call_tool", "call_tool failed")
    /\ UNCHANGED <<session, exit_stack, opened, closed, cleanups,
                   query, nQueries, pending>>

\* variant: the stream is started but not iterated, the content loop goes on
summarize_call_undrained(stream) ==
    /\ pc = "summarize"
    /\ log' = [log EXCEPT !.trace = Append(@, "summarize"),
                          !.summaries = Append(@, messages),
                          !.streams = Append(@, stream)]
    /\ pending' = stream
    /\ content_loop(Frame, ci + 1)
    /\ UNCHANGED <<session, exit_stack, opened, closed, cleanups,
                   query, nQueries>>

\* lines 177-182: the streamed chat call is made with the current messages;
\* `stream` is what the backend is going to deliver
summarize_call(stream) ==
    /\ pc = "summarize"
    /\ log' = [log EXCEPT !.trace = Append(@, "summarize"),
                          !.summaries = Append(@, messages),
                          !.streams = Append(@, stream)]
    /\ pending' = stream
    /\ pc' = "stream"
    /\ UNCHANGED <<client, loop, frame, response>>

\* lines 183-185: one chunk arrives
stream_chunk ==
    /\ pc = "stream"
    /\ pending # <<>>
    /\ final_text' = collect(final_text, Head(pending))
    /\ log' = [log EXCEPT !.streamed = Append(@, Head(pending))]
    /\ pending' = Tail(pending)
    /\ UNCHANGED <<pc, client, loop, messages, available_tools,
                   tool_calls, tool_results, tool_name, tool_args, data, ti,
                   ci, response>>

\* line 183: the stream is exhausted; the content loop goes on
stream_end ==
    /\ pc = "stream"
    /\ pending = <<>>
    /\ content_loop(Frame, ci + 1)
    /\ UNCHANGED <<session, exit_stack, opened, closed, cleanups,
                   query, nQueries, pending, log>>

\* line 183: the stream raises, before or between chunks
stream_error ==
    /\ pc = "stream"
    /\ pending' = <<>>
    /\ Raises("summarize", "chat stream failed")
    /\ UNCHANGED <<session, exit_stack, opened, closed, cleanups,
                   query, nQueries, log>>

(***************************************************************************)
(* Specification.                                                          *)
(***************************************************************************)
Next ==
    \/ \E argv \in CommandLines : main_usage(argv)
    \/ \E argv \in CommandLines, outcome \in ConnectOutcomes :
           connect_to_server(argv, outcome)
    \/ cleanup
    \/ \E text \in Inputs : chat_loop_quit(text)
    \/ \E text \in Inputs : chat_loop_query(text)
    \/ chat_loop_prompt_error
    \/ chat_loop_interrupt
    \/ \E raises \in BOOLEAN : chat_loop_show(raises)
    \/ \E tools \in Catalogs : list_tools_ok(tools)
    \/ list_tools_error
    \/ \E message \in Decisions : decide_ok(message)
    \/ decide_error
    \/ \E result \in ToolResults : call_tool_ok(result)
    \/ call_tool_error
    \/ \E stream \in Streams : summarize_call(stream)
    \/ stream_chunk
    \/ stream_end
    \/ stream_error

Spec == Init /\ [][Next]_vars

(***************************************************************************)
(* Properties.                                                             *)
(***************************************************************************)
\* the decision call of this iteration has returned a message
Decided == log.decided

NoToolCalls == Decided /\ log.decision.tool_calls = <<>>

SomeToolCalls == Decided /\ log.decision.tool_calls # <<>>

\* call_tool has returned a result in this iteration
Invoked == Len(log.results) >= 1

Succeeded == Invoked /\ ~log.results[1].isError

Failed == Invoked /\ log.results[1].isError

TextBlocks(content) == {k \in 1..Len(content) : content[k].type = "text"}

\* C1: when the decision holds no tool call, process_query returns the
\* content of the decision, and that text is what chat_loop shows in the
\* answer panel.
C1_ReturnsDecisionContent ==
    /\ (pc = "returned" /\ NoToolCalls) => response = log.decision.content
    /\ (pc = "prompt" /\ NoToolCalls) =>
           console = [kind |-> "answer", text |-> log.decision.content]

\* C2: in one query there is at most one call_tool call and at most one
\* streamed (summarization) chat call, whatever the tool result holds.
C2_AtMostOneInvocationOneSummary ==
    /\ Len(log.invocations) <= 1
    /\ Len(log.summaries) <= 1

\* C3: when the decision holds tool calls, call_tool is called exactly once,
\* with the name and the arguments of the first of them, and no later tool
\* call of the decision is invoked, whether the result is an error or not.
C3_OnlyFirstToolCallInvoked ==
    SomeToolCalls =>
        /\ Len(log.invocations) = IF pc = "call_tool" THEN 0 ELSE 1
        /\ \A i \in 1..Len(log.invocations) :
               /\ log.invocations[i].name =
                      log.decision.tool_calls[1].function.name
               /\ log.invocations[i].arguments =
                      log.decision.tool_calls[1].function.arguments

C3_Witness ==
    /\ pc = "returned"
    /\ Succeeded
    /\ Len(log.decision.tool_calls) = 2
    /\ log.decision.tool_calls[1].function.name = "get_forecast"
    /\ log.decision.tool_calls[2].function.name = "get_time"
    /\ Len(log.invocations) = 1
    /\ log.invocations[1].name = "get_forecast"

\* C4: when call_tool returns isError, the query makes no streamed chat call
\* and process_query returns "function call for <name> failed with
\* arguments <args>" with the name and arguments that were invoked.
C4_ErrorResultTemplate ==
    Failed =>
        /\ log.summaries = <<>>
        /\ pc \in {"returned", "prompt"}
        /\ pc = "returned" =>
               /\ response =
                      Str("function call for " \o log.invocations[1].name
                          \o " failed with arguments "
                          \o PyRepr(log.invocations[1].arguments))
               /\ log.invocations[1].name = "get_forecast" =>
                      response = Str("function call for get_forecast failed "
                                     \o "with arguments {'state': 'WA'}")

C4_Witness ==
    /\ pc = "returned"
    /\ Failed
    /\ log.invocations[1].name = "get_forecast"
    /\ log.invocations[1].arguments = << <<"state", "WA">> >>
    /\ response = Str("function call for get_forecast failed "
                      \o "with arguments {'state': 'WA'}")

\* C5: when the decision holds no tool call, the query makes exactly one chat
\* call, the decision call, and no call_tool call, and then finishes.
C5_NoToolCallOneChatCall ==
    NoToolCalls =>
        /\ Len(log.decide_args) + Len(log.summaries) = 1
        /\ log.invocations = <<>>
        /\ log.trace = <<"list_tools", "decide">>
        /\ pc \in {"returned", "prompt"}

C5_Witness ==
    /\ pc = "returned"
    /\ NoToolCalls
    /\ log.decision.content = Str("I don't understand")
    /\ Len(log.decide_args) = 1
    /\ log.invocations = <<>>

\* C6: after a successful call_tool, each streamed chat call gets a history
\* that starts with the user message of the query, then the assistant
\* message (content None, tool_calls = [the invoked request]), and that ends
\* with a tool message holding the text of a text block of the result.
C6_SummaryHistoryShape ==
    \A i \in 1..Len(log.summaries) :
        LET h == log.summaries[i]
            content == log.results[1].content
        IN  /\ Succeeded
            /\ Len(h) >= 3
            /\ h[1] = [role |-> "user", content |-> Str(query)]
            /\ h[2].role = "assistant"
            /\ h[2].content = None
            /\ Len(h[2].tool_calls) = 1
            /\ h[2].tool_calls[1].type = "function"
            /\ h[2].tool_calls[1].function =
                   [name |-> log.invocations[1].name,
                    arguments |-> log.invocations[1].arguments]
            /\ h[Len(h)].role = "tool"
            /\ \E k \in TextBlocks(content) :
                   h[Len(h)].content = Str(content[k].text)

C6_Witness ==
    /\ pc = "returned"
    /\ Succeeded
    /\ Len(log.summaries) = 1
    /\ log.results[1].content = <<[type |-> "text", text |-> "72F, clear"]>>
    /\ log.summaries[1][3] = [role |-> "tool", content |-> Str("72F, clear")]

\* C7: after a successful call_tool, process_query returns the chunks that
\* were streamed, concatenated in arrival order, none dropped, duplicated
\* or reordered: "The", " forecast", " is sunny." give
\* "The forecast is sunny.".
C7_AnswerIsConcatenationOfChunks ==
    (pc = "returned" /\ Succeeded) =>
        /\ response = Str(Join(log.streamed))
        /\ log.streamed = <<"The", " forecast", " is sunny.">> =>
               response = Str("The forecast is sunny.")
        /\ log.streamed = <<"Sunny.", "The", " forecast", " is sunny.">> =>
               response = Str("Sunny.The forecast is sunny.")

C7_Witness ==
    /\ pc = "returned"
    /\ Succeeded
    /\ log.streamed = <<"The", " forecast", " is sunny.">>
    /\ response = Str("The forecast is sunny.")

\* C8: when a successful tool result holds no text block, no streamed chat
\* call is made and process_query returns the empty string.
C8_NoTextBlockEmptyAnswer ==
    (Succeeded /\ TextBlocks(log.results[1].content) = {}) =>
        /\ log.summaries = <<>>
        /\ pc \in {"returned", "prompt"}
        /\ pc = "returned" => response = Str("")

C8_Witness ==
    /\ pc = "returned"
    /\ Succeeded
    /\ log.results[1].content = <<[type |-> "image", text |-> "<png>"]>>
    /\ log.summaries = <<>>
    /\ response = Str("")

\* C9: for a catalog of N tool descriptors convert_to_openai_format gives N
\* entries of type "function" with the same names in the same order, the
\* empty string for an absent description and the empty object for an
\* absent input schema.
C9_ConvertTotalWithDefaults ==
    pc = "decide" =>
        /\ Len(available_tools) = Len(log.catalog)
        /\ \A i \in 1..Len(available_tools) :
               LET tool == log.catalog[i]
                   entry == available_tools[i]
               IN  /\ entry.type = "function"
                   /\ entry.function.name = tool.name
                   /\ entry.function.description =
                          IF tool.description = None
                          THEN Str("") ELSE tool.description
                   /\ entry.function.parameters =
                          IF tool.inputSchema = None
                          THEN [t |-> "dict", v |-> <<>>]
                          ELSE tool.inputSchema

\* C10: an error raised by list_tools, by the decision chat call, by
\* call_tool or by the summarization stream is caught by chat_loop and
\* printed, and the loop is at its next prompt: the run has not ended.
C10_QueryErrorsCaught ==
    exc \in {"list_tools", "decide", "call_tool", "summarize"} =>
        /\ pc = "prompt"
        /\ console.kind = "error"
        /\ exit_reason = "running"
        /\ cleanups = 0

C10_Witness ==
    /\ exc = "summarize"
    /\ log.streamed # <<>>
    /\ pc = "prompt"
    /\ console.kind = "error"
    /\ nQueries < MaxQueries

\* C11: the tool-server session is opened at most once in a run, and once the
\* client exists cleanup runs exactly once on every way out of main (quit,
\* a failure of connect_to_server, an error that leaves chat_loop), closing
\* the session when it was opened.
C11_CleanupExactlyOnce ==
    /\ opened <= 1
    /\ closed <= opened
    /\ pc # "done" => cleanups = 0
    /\ (pc = "done" /\ exit_reason # "usage") =>
           /\ exit_reason \in {"quit", "connect_error", "interrupt"}
           /\ cleanups = 1
           /\ closed = opened
           /\ session # "open"
           /\ exit_stack = <<>>

C11_Witness ==
    /\ pc = "done"
    /\ exit_reason = "interrupt"
    /\ opened = 1
    /\ closed = 1
    /\ cleanups = 1
    /\ nQueries = 1

\* C12: when connect_to_server fails (unsupported script type, transport or
\* session failure, failing initialize or first list_tools), chat_loop is
\* never entered: no prompt is read, no query is processed, and the run
\* ends after cleanup.
C12_ConnectFailureIsFatal ==
    exit_reason = "connect_error" =>
        /\ pc \in {"cleanup", "done"}
        /\ nQueries = 0
        /\ query = <<>>
        /\ console = NoConsole
        /\ exc = "none"
        /\ log = EmptyLog
        /\ pc = "done" => cleanups = 1

C12_Witness ==
    /\ exit_reason = "connect_error"
    /\ pc = "done"
    /\ session = "closed"
    /\ opened = 1
    /\ closed = 1
    /\ nQueries = 0

\* process_query is running
InQuery == pc \in {"list_tools", "decide", "call_tool", "summarize", "stream"}

\* the texts that spell quit in any mix of upper and lower case
QuitForms ==
    { s \in Inputs :
        /\ Len(s) = 4
        /\ s[1] \in {"q", "Q"}
        /\ s[2] \in {"u", "U"}
        /\ s[3] \in {"i", "I"}
        /\ s[4] \in {"t", "T"} }

UserMessage(text) == [role |-> "user", content |-> Str(text)]

\* C13 as stated: only the text quit, spelled exactly so, ends chat_loop;
\* every other text, QUIT and Quit included, is handed to process_query.
C13_OnlyLiteralQuit ==
    /\ exit_reason = "quit" => query = <<"q", "u", "i", "t">>
    /\ InQuery => messages[1] = UserMessage(query)

\* C13 amended: a text ends chat_loop exactly when its lower-cased form is
\* quit (so QUIT and Quit end it too); every other text, the empty one
\* included, is handed unchanged to process_query as the user message.
C13_QuitIgnoresCase ==
    /\ exit_reason = "quit" => query \in QuitForms
    /\ InQuery =>
           /\ query \notin QuitForms
           /\ messages[1] = UserMessage(query)

C13_Witness ==
    /\ exit_reason = "quit"
    /\ query = <<"Q", "U", "I", "T">>
    /\ pc = "cleanup"
    /\ console.kind = "exit"

\* the assistant message that records the invoked request
IsAssistantMessageFor(m, invocation) ==
    /\ m.role = "assistant"
    /\ m.content = None
    /\ Len(m.tool_calls) = 1
    /\ m.tool_calls[1].function =
           [name |-> invocation.name, arguments |-> invocation.arguments]

\* C14 as stated: the assistant message recording the tool call is appended
\* before the tool is invoked, so call_tool is called with the history
\* [user message, assistant message], on the error and the success path.
C14_AssistantBeforeInvoke ==
    \A i \in 1..Len(log.invocations) :
        LET h == log.invocations[i].messages
        IN  /\ Len(h) = 2
            /\ h[1] = UserMessage(query)
            /\ IsAssistantMessageFor(h[2], log.invocations[i])

\* C14 amended: when call_tool is called the history is [user message] only;
\* the assistant message recording the tool call is appended after call_tool
\* has returned a result that is not an error, before the first tool message.
C14_AssistantAfterSuccess ==
    /\ \A i \in 1..Len(log.invocations) :
           log.invocations[i].messages = <<UserMessage(query)>>
    /\ pc = "call_tool" => messages = <<UserMessage(query)>>
    /\ pc \in {"summarize", "stream"} =>
           /\ Succeeded
           /\ Len(messages) >= 3
           /\ messages[1] = UserMessage(query)
           /\ IsAssistantMessageFor(messages[2], log.invocations[1])
           /\ \A k \in 3..Len(messages) : messages[k].role = "tool"

C14_Witness ==
    /\ pc = "stream"
    /\ Succeeded
    /\ log.invocations[1].messages = <<UserMessage(query)>>
    /\ Len(messages) = 3
    /\ messages[2].role = "assistant"

CallOrder == <<"list_tools", "decide", "call_tool">>

\* C15: in every query the external calls come in the order list_tools,
\* decision chat call, call_tool, summarization chat call: the catalog is
\* fetched in each query before its decision call and is what that call
\* gets, call_tool comes only after the decision call has returned, and a
\* summarization call only after call_tool has returned a non-error result.
C15_ExternalCallOrder ==
    /\ \A i \in 1..Len(log.trace) :
           log.trace[i] = IF i <= 3 THEN CallOrder[i] ELSE "summarize"
    /\ (InQuery /\ pc # "list_tools") => log.trace # <<>>
    /\ \A i \in 1..Len(log.decide_args) :
           LET tools == log.decide_args[i].tools
           IN  /\ Len(log.trace) >= 2
               /\ Len(tools) = Len(log.catalog)
               /\ \A j \in 1..Len(tools) :
                      tools[j].function.name = log.catalog[j].name
    /\ Len(log.trace) >= 3 => SomeToolCalls
    /\ Len(log.trace) >= 4 => Succeeded

C15_Witness ==
    /\ nQueries = 2
    /\ pc = "returned"
    /\ log.trace = <<"list_tools", "decide", "call_tool", "summarize">>
    /\ Len(log.catalog) = 2

IsPrefix(a, b) == Len(a) <= Len(b) /\ SubSeq(b, 1, Len(a)) = a

\* C16: the history is seeded anew for every query and only grows within a
\* query: each query starts from the one user message holding its own text,
\* that is exactly what its decision call gets, and from one step of the
\* query to the next the history keeps every message it had, unchanged.
C16_HistoryFreshAndAppendOnly ==
    [][ /\ pc' = "list_tools" => messages' = <<UserMessage(query')>>
        /\ \A i \in 1..Len(log'.decide_args) :
               log'.decide_args[i].messages = <<UserMessage(query')>>
        /\ (InQuery /\ InQuery') => IsPrefix(messages, messages')
      ]_vars

C16_Witness ==
    /\ nQueries = 2
    /\ pc = "stream"
    /\ Len(log.decide_args) = 1
    /\ log.decide_args[1].messages = <<UserMessage(query)>>
    /\ Len(messages) = 4

CatalogNames == {log.catalog[i].name : i \in 1..Len(log.catalog)}

\* C17: a tool call whose name is not in the catalog fetched for the query
\* is passed to call_tool all the same, with that name and those arguments;
\* when its result is an error the query ends with the failure text as for
\* any other tool.
C17_UnknownToolForwarded ==
    (SomeToolCalls
     /\ log.decision.tool_calls[1].function.name \notin CatalogNames) =>
        LET request == log.decision.tool_calls[1].function
        IN  /\ pc = "call_tool" =>
                   tool_name = request.name /\ tool_args = request.arguments
            /\ pc # "call_tool" =>
                   /\ Len(log.invocations) = 1
                   /\ log.invocations[1].name = request.name
                   /\ log.invocations[1].arguments = request.arguments
            /\ Failed =>
                   /\ log.summaries = <<>>
                   /\ pc = "returned" =>
                          response = Str("function call for " \o request.name
                                         \o " failed with arguments "
                                         \o PyRepr(request.arguments))

C17_Witness ==
    /\ pc = "returned"
    /\ Failed
    /\ Len(log.catalog) = 2
    /\ log.invocations[1].name = "get_time"
    /\ response = Str("function call for get_time failed with arguments {}")

\* no query is in progress: process_query has no frame, no value is on its
\* way back and no stream is open
Idle ==
    /\ messages = <<>>
    /\ tool_calls = <<>>
    /\ final_text = <<>>
    /\ response = None
    /\ pending = <<>>

\* C18: queries never overlap: chat_loop is at its prompt, and a prompt is
\* read, only when process_query has finished, and a running summarization
\* stream is left only when it is drained or has raised.
C18_QueriesDoNotOverlap ==
    [][ /\ pc' = "prompt" => Idle'
        /\ (nQueries' # nQueries \/ exit_reason' # exit_reason) =>
               (pc \in {"main", "prompt"} /\ Idle)
        /\ (pc = "stream" /\ pc' # "stream") =>
               (pending = <<>> \/ (exc' = "summarize" /\ pc' = "prompt"))
        /\ (pc = "stream" /\ pc' = "stream") =>
               (nQueries' = nQueries /\ query' = query)
      ]_vars

C18_Witness ==
    /\ pc = "prompt"
    /\ nQueries = 1
    /\ console.kind = "answer"
    /\ log.streamed = <<"The", " forecast", " is sunny.">>
    /\ Idle

RECURSIVE Flatten(_)
Flatten(seqs) ==
    IF seqs = <<>> THEN <<>> ELSE Head(seqs) \o Flatten(Tail(seqs))

ToolMessages(h) == {k \in 1..Len(h) : h[k].role = "tool"}

\* C19: after a successful call_tool the query makes one streamed chat call
\* per text block of the result: the i-th call gets a history with exactly
\* i tool messages, and the text returned is the chunks of all these calls,
\* joined call after call.
C19_OneSummaryPerTextBlock ==
    Succeeded =>
        LET texts == TextBlocks(log.results[1].content)
        IN  /\ Len(log.summaries) <= Cardinality(texts)
            /\ \A i \in 1..Len(log.summaries) :
                   Cardinality(ToolMessages(log.summaries[i])) = i
            /\ pc = "returned" =>
                   /\ Len(log.summaries) = Cardinality(texts)
                   /\ Len(log.streams) = Cardinality(texts)
                   /\ response = Str(Join(Flatten(log.streams)))

C19_Witness ==
    /\ pc = "returned"
    /\ Succeeded
    /\ Len(log.summaries) = 2
    /\ log.streams = << <<"Sunny.">>, <<"The", " forecast", " is sunny.">> >>
    /\ response = Str("Sunny.The forecast is sunny.")

\* C20: chat_loop returns only through its quit branch.  An Exception raised
\* in an iteration, one raised by reading the prompt included, is caught and
\* printed and the loop is at its prompt again, where reading can fail
\* again: as long as every read fails the loop goes on and cleanup is not
\* reached.
C20_OnlyQuitReturns ==
    [][ /\ exc' # "none" =>
               /\ pc' = "prompt"
               /\ console'.kind = "error"
               /\ exit_reason' = "running"
               /\ cleanups' = 0
        /\ exc' = "prompt" => (pc = "prompt" /\ nQueries' = nQueries)
        /\ (pc \notin {"main", "cleanup"} /\ pc' \in {"cleanup", "done"}) =>
               /\ pc = "prompt"
               /\ pc' = "cleanup"
               /\ \/ exit_reason' = "quit" /\ query' \in QuitForms
                  \/ exit_reason' = "interrupt"
      ]_vars

C20_Witness ==
    /\ exc = "prompt"
    /\ pc = "prompt"
    /\ console.kind = "error"
    /\ nQueries = 1
    /\ cleanups = 0
    /\ exit_reason = "running"

====
